---- MODULE Spec2Model ----
(***************************************************************************)
(* Model of the test-binary crate: the Cargo message-stream parser         *)
(* (src/src/stream.rs, process_messages) and the process orchestrator      *)
(* (src/src/lib.rs, TestBinary::build) together with the Cargo child       *)
(* process and the two OS pipes that connect it to the parent.             *)
(*                                                                         *)
(* Text is modelled as a sequence of pieces, so that concatenation, order  *)
(* and line breaks are observable.  Option<T> is modelled as a sequence of *)
(* length 0 or 1.                                                          *)
(***************************************************************************)
EXTENDS Integers, Sequences, FiniteSets, TLC

\* ------------------------------------------------------------------ bounds
\* Total number of writes the child performs on both channels together.
MaxWrites == 3
\* Capacity of one OS pipe, counted in written items.
PipeCap == 1
\* Longest input handed to process_messages in the parser specification.
MaxLines == 4
\* Threads that call the generated path_to_<name>() function.
NThreads == 3
\* Calls of path_to_<name>() one thread makes.
MaxCalls == 2
\* Longest input handed to process_messages in the loop specification.
MaxLoopLines == 2
\* Calls of process_messages on the same input in the loop specification.
MaxRuns == 2

\* ------------------------------------------------------------ value spaces
Names == {"fla", "other"}
Threads == 1..NThreads
\* Paths a run of build_test_binary may return to the Lazy initializer.
BuiltPaths == {"/target/debug/multiple", "/target/release/multiple"}
NL == "\n"

\* One item of the message iterator, as classified by Message::parse_stream.
Artifact(n, k, e) ==
    [reason |-> "compiler-artifact", name |-> n, kind |-> k, executable |-> e]

CompilerMessage(r) == [reason |-> "compiler-message", rendered |-> r]

TextLine(t) == [reason |-> "text-line", text |-> t]

BuildFinished(s) == [reason |-> "build-finished", success |-> s]

\* Any other structured record (build-script-executed, unknown reason, ...).
OtherMessage == [reason |-> "other"]

\* An item of the iterator that is Err(io::Error): a failed line read, for
\* instance a line that is not valid UTF-8.
ReadError == [reason |-> "io-error"]

StdoutItems ==
    { Artifact("fla", {"bin"}, <<"/target/debug/a">>),
      Artifact("fla", {"bin"}, <<"/target/debug/b">>),
      Artifact("fla", {"bin"}, <<>>),
      Artifact("fla", {"lib"}, <<"/target/debug/a">>),
      Artifact("other", {"bin"}, <<"/target/debug/b">>),
      CompilerMessage("error: E1"),
      TextLine("Surprise text line!"),
      BuildFinished(TRUE),
      BuildFinished(FALSE),
      OtherMessage,
      ReadError }

\* What the child may write to stderr in one write; BadUtf8 stands for bytes
\* that are not valid UTF-8.
BadUtf8 == "<invalid-utf8>"
StderrItems == {"error: manifest path does not exist", BadUtf8}

\* -------------------------------------------------------------- error type
\* Option<Result<Utf8PathBuf, TestBinaryError>> and Result<OsString, ...>
\* are records [tag, val]; val is the payload as a sequence of pieces.
NoOutcome == [tag |-> "None", val |-> <<>>]
OkPath(p) == [tag |-> "Ok", val |-> p]
NonCargoRun(key) == [tag |-> "NonCargoRun", val |-> <<key>>]
CargoRunError == [tag |-> "CargoRunError", val |-> <<>>]
CargoFailure(msg) == [tag |-> "CargoFailure", val |-> msg]
BuildError(msg) == [tag |-> "BuildError", val |-> msg]
BinaryNotBuilt(name) == [tag |-> "BinaryNotBuilt", val |-> <<name>>]
Panicked(msg) == [tag |-> "Panic", val |-> <<msg>>]
ManifestError(kind) == [tag |-> "ManifestError", val |-> <<kind>>]
NotReturned == [tag |-> "NotReturned", val |-> <<>>]

\* A path value: the type that holds it and its text.
Utf8PathBuf(s) == [ty |-> "Utf8PathBuf", s |-> s]
\* Into::into from Utf8PathBuf to OsString keeps the text, changes the type.
IntoOsString(p) == [ty |-> "OsString", s |-> p.s]

\* ------------------------------------------------------------------ parser
\* State of the scanning loop: the pending outcome, the diagnostics buffer,
\* and whether the loop has executed `break`.
ScanInit == [outcome |-> NoOutcome, msgs |-> <<>>, stop |-> FALSE]

\* The guard without the kind test: name equality alone.
IsMatch_NameOnly(line, name) ==
    /\ line.reason = "compiler-artifact"
    /\ line.name = name

\* The guard without the name test: any artifact of kind "bin".
IsMatch_AnyBin(line, name) ==
    /\ line.reason = "compiler-artifact"
    /\ "bin" \in line.kind

IsMatch(line, name) ==
    /\ line.reason = "compiler-artifact"
    /\ line.name = name
    /\ "bin" \in line.kind

\* Variants of the loop body with one slip each, used to show that the
\* properties below depend on the code.
\* The matching arm forgets `break`.
ScanStep_NoBreakOnMatch(st, line, name) ==
    IF line.reason = "io-error" THEN st
    ELSE IF IsMatch(line, name) THEN
        [st EXCEPT !.outcome =
                      IF Len(line.executable) = 0
                      THEN BinaryNotBuilt(name)
                      ELSE OkPath(<<Utf8PathBuf(line.executable[1])>>)]
    ELSE IF line.reason = "compiler-message" THEN
        [st EXCEPT !.msgs = st.msgs \o <<line.rendered, NL>>]
    ELSE IF line.reason = "text-line" THEN
        [st EXCEPT !.msgs = st.msgs \o <<line.text, NL>>]
    ELSE IF line.reason = "build-finished" THEN
        [st EXCEPT !.outcome =
                      IF line.success
                      THEN (IF st.outcome.tag = "None"
                            THEN BinaryNotBuilt(name) ELSE st.outcome)
                      ELSE BuildError(st.msgs),
                   !.stop = TRUE]
    ELSE st

\* The Message::TextLine arm is missing: text lines fall to `_ => continue`.
ScanStep_DropTextLine(st, line, name) ==
    IF line.reason = "io-error" THEN st
    ELSE IF IsMatch(line, name) THEN
        [st EXCEPT !.outcome =
                      IF Len(line.executable) = 0
                      THEN BinaryNotBuilt(name)
                      ELSE OkPath(<<Utf8PathBuf(line.executable[1])>>),
                   !.stop = TRUE]
    ELSE IF line.reason = "compiler-message" THEN
        [st EXCEPT !.msgs = st.msgs \o <<line.rendered, NL>>]
    ELSE IF line.reason = "build-finished" THEN
        [st EXCEPT !.outcome =
                      IF line.success
                      THEN (IF st.outcome.tag = "None"
                            THEN BinaryNotBuilt(name) ELSE st.outcome)
                      ELSE BuildError(st.msgs),
                   !.stop = TRUE]
    ELSE st

\* A successful build-finished keeps the pending outcome without or_else.
ScanStep_FinishKeepsNone(st, line, name) ==
    IF line.reason = "io-error" THEN st
    ELSE IF IsMatch(line, name) THEN
        [st EXCEPT !.outcome =
                      IF Len(line.executable) = 0
                      THEN BinaryNotBuilt(name)
                      ELSE OkPath(<<Utf8PathBuf(line.executable[1])>>),
                   !.stop = TRUE]
    ELSE IF line.reason = "compiler-message" THEN
        [st EXCEPT !.msgs = st.msgs \o <<line.rendered, NL>>]
    ELSE IF line.reason = "text-line" THEN
        [st EXCEPT !.msgs = st.msgs \o <<line.text, NL>>]
    ELSE IF line.reason = "build-finished" THEN
        [st EXCEPT !.outcome =
                      IF line.success
                      THEN st.outcome
                      ELSE BuildError(st.msgs),
                   !.stop = TRUE]
    ELSE st

\* A matching record without an executable is passed over instead of
\* ending the loop with BinaryNotBuilt.
ScanStep_SkipPathless(st, line, name) ==
    IF line.reason = "io-error" THEN st
    ELSE IF IsMatch(line, name) /\ Len(line.executable) = 1 THEN
        [st EXCEPT !.outcome = OkPath(<<Utf8PathBuf(line.executable[1])>>),
                   !.stop = TRUE]
    ELSE IF line.reason = "compiler-message" THEN
        [st EXCEPT !.msgs = st.msgs \o <<line.rendered, NL>>]
    ELSE IF line.reason = "text-line" THEN
        [st EXCEPT !.msgs = st.msgs \o <<line.text, NL>>]
    ELSE IF line.reason = "build-finished" THEN
        [st EXCEPT !.outcome =
                      IF line.success
                      THEN (IF st.outcome.tag = "None"
                            THEN BinaryNotBuilt(name) ELSE st.outcome)
                      ELSE BuildError(st.msgs),
                   !.stop = TRUE]
    ELSE st

\* The test of build_result.success is inverted.
ScanStep_FinishInverted(st, line, name) ==
    IF line.reason = "io-error" THEN st
    ELSE IF IsMatch(line, name) THEN
        [st EXCEPT !.outcome =
                      IF Len(line.executable) = 0
                      THEN BinaryNotBuilt(name)
                      ELSE OkPath(<<Utf8PathBuf(line.executable[1])>>),
                   !.stop = TRUE]
    ELSE IF line.reason = "compiler-message" THEN
        [st EXCEPT !.msgs = st.msgs \o <<line.rendered, NL>>]
    ELSE IF line.reason = "text-line" THEN
        [st EXCEPT !.msgs = st.msgs \o <<line.text, NL>>]
    ELSE IF line.reason = "build-finished" THEN
        [st EXCEPT !.outcome =
                      IF ~line.success
                      THEN (IF st.outcome.tag = "None"
                            THEN BinaryNotBuilt(name) ELSE st.outcome)
                      ELSE BuildError(st.msgs),
                   !.stop = TRUE]
    ELSE st

\* The build-finished arm forgets `break`.
ScanStep_NoBreakOnFinish(st, line, name) ==
    IF line.reason = "io-error" THEN st
    ELSE IF IsMatch(line, name) THEN
        [st EXCEPT !.outcome =
                      IF Len(line.executable) = 0
                      THEN BinaryNotBuilt(name)
                      ELSE OkPath(<<Utf8PathBuf(line.executable[1])>>),
                   !.stop = TRUE]
    ELSE IF line.reason = "compiler-message" THEN
        [st EXCEPT !.msgs = st.msgs \o <<line.rendered, NL>>]
    ELSE IF line.reason = "text-line" THEN
        [st EXCEPT !.msgs = st.msgs \o <<line.text, NL>>]
    ELSE IF line.reason = "build-finished" THEN
        [st EXCEPT !.outcome =
                      IF line.success
                      THEN (IF st.outcome.tag = "None"
                            THEN BinaryNotBuilt(name) ELSE st.outcome)
                      ELSE BuildError(st.msgs)]
    ELSE st

\* The catch-all arm ends the loop instead of `continue`.
ScanStep_OtherAborts(st, line, name) ==
    IF line.reason = "io-error" THEN st
    ELSE IF IsMatch(line, name) THEN
        [st EXCEPT !.outcome =
                      IF Len(line.executable) = 0
                      THEN BinaryNotBuilt(name)
                      ELSE OkPath(<<Utf8PathBuf(line.executable[1])>>),
                   !.stop = TRUE]
    ELSE IF line.reason = "compiler-message" THEN
        [st EXCEPT !.msgs = st.msgs \o <<line.rendered, NL>>]
    ELSE IF line.reason = "text-line" THEN
        [st EXCEPT !.msgs = st.msgs \o <<line.text, NL>>]
    ELSE IF line.reason = "build-finished" THEN
        [st EXCEPT !.outcome =
                      IF line.success
                      THEN (IF st.outcome.tag = "None"
                            THEN BinaryNotBuilt(name) ELSE st.outcome)
                      ELSE BuildError(st.msgs),
                   !.stop = TRUE]
    ELSE [st EXCEPT !.stop = TRUE]

\* One iteration of `for message in messages.flatten()`.
ScanStep(st, line, name) ==
    IF line.reason = "io-error" THEN st
    ELSE IF IsMatch(line, name) THEN
        [st EXCEPT !.outcome =
                      IF Len(line.executable) = 0
                      THEN BinaryNotBuilt(name)
                      ELSE OkPath(<<Utf8PathBuf(line.executable[1])>>),
                   !.stop = TRUE]
    ELSE IF line.reason = "compiler-message" THEN
        [st EXCEPT !.msgs = st.msgs \o <<line.rendered, NL>>]
    ELSE IF line.reason = "text-line" THEN
        [st EXCEPT !.msgs = st.msgs \o <<line.text, NL>>]
    ELSE IF line.reason = "build-finished" THEN
        [st EXCEPT !.outcome =
                      IF line.success
                      THEN (IF st.outcome.tag = "None"
                            THEN BinaryNotBuilt(name) ELSE st.outcome)
                      ELSE BuildError(st.msgs),
                   !.stop = TRUE]
    ELSE st

RECURSIVE ScanFrom(_, _, _)
ScanFrom(st, ls, name) ==
    IF st.stop \/ ls = <<>> THEN st
    ELSE ScanFrom(ScanStep(st, Head(ls), name), Tail(ls), name)

\* A process_messages that turns a silent end of stream into BinaryNotBuilt.
process_messages_DefaultNotBuilt(ls, name) ==
    LET out == ScanFrom(ScanInit, ls, name).outcome IN
    IF out.tag = "None" THEN BinaryNotBuilt(name) ELSE out

\* process_messages(reader, binary_name) on a reader that yields ls and
\* then end-of-stream.
process_messages(ls, name) == ScanFrom(ScanInit, ls, name).outcome

\* ------------------------------------------------------------ orchestrator
\* Variants of the reconciliation with one slip each.
\* The exit status test is negated.
Reconcile_Negated(success, outcome, errmsg) ==
    IF ~success THEN
        IF outcome.tag = "None"
        THEN Panicked("Cargo succeeded but produced no output")
        ELSE IF outcome.tag = "Ok"
        THEN OkPath(<<IntoOsString(outcome.val[1])>>)
        ELSE outcome
    ELSE IF outcome.tag \notin {"None", "Ok"} THEN outcome
    ELSE CargoFailure(errmsg)

\* The `else if let Some(Err(err))` arm is missing.
Reconcile_NoJsonError(success, outcome, errmsg) ==
    IF success THEN
        IF outcome.tag = "None"
        THEN Panicked("Cargo succeeded but produced no output")
        ELSE IF outcome.tag = "Ok"
        THEN OkPath(<<IntoOsString(outcome.val[1])>>)
        ELSE outcome
    ELSE CargoFailure(errmsg)

\* A failed process with a parsed path still returns the path.
Reconcile_TrustParser(success, outcome, errmsg) ==
    IF success \/ outcome.tag = "Ok" THEN
        IF outcome.tag = "None"
        THEN Panicked("Cargo succeeded but produced no output")
        ELSE IF outcome.tag = "Ok"
        THEN OkPath(<<IntoOsString(outcome.val[1])>>)
        ELSE outcome
    ELSE IF outcome.tag \notin {"None", "Ok"} THEN outcome
    ELSE CargoFailure(errmsg)

\* `expect` replaced by a fallback to the stderr text.
Reconcile_UnwrapOr(success, outcome, errmsg) ==
    IF success THEN
        IF outcome.tag = "None"
        THEN CargoFailure(errmsg)
        ELSE IF outcome.tag = "Ok"
        THEN OkPath(<<IntoOsString(outcome.val[1])>>)
        ELSE outcome
    ELSE IF outcome.tag \notin {"None", "Ok"} THEN outcome
    ELSE CargoFailure(errmsg)

\* On success only a parsed path is passed on; parsed errors are replaced.
Reconcile_SuccessOnlyOk(success, outcome, errmsg) ==
    IF success THEN
        IF outcome.tag = "None"
        THEN Panicked("Cargo succeeded but produced no output")
        ELSE IF outcome.tag = "Ok"
        THEN OkPath(<<IntoOsString(outcome.val[1])>>)
        ELSE CargoFailure(errmsg)
    ELSE IF outcome.tag \notin {"None", "Ok"} THEN outcome
    ELSE CargoFailure(errmsg)

\* The tail of TestBinary::build: exit status against parser outcome.
Reconcile(success, outcome, errmsg) ==
    IF success THEN
        IF outcome.tag = "None"
        THEN Panicked("Cargo succeeded but produced no output")
        ELSE IF outcome.tag = "Ok"
        THEN OkPath(<<IntoOsString(outcome.val[1])>>)
        ELSE outcome
    ELSE IF outcome.tag \notin {"None", "Ok"} THEN outcome
    ELSE CargoFailure(errmsg)

VARIABLES
    binary_name,        \* self.binary / the binary_name argument
    cargoSet,           \* whether the CARGO environment variable is set
    manifestDirSet,     \* whether CARGO_MANIFEST_DIR is set
    pc,                 \* position of the parent inside build()
    child,              \* "none" | "running" | "writing" | "exited"
    pending,            \* the write the child is performing: <<chan, item>>
    pipeOut,            \* unread content of the stdout pipe
    pipeErr,            \* unread content of the stderr pipe
    nWrites,            \* writes the child has completed
    exitOk,             \* the child's exit status is success
    scan,               \* state of the loop inside process_messages
    error_msg,          \* the String filled by read_to_string
    waited,             \* cargo_command.wait() has returned a status
    result,             \* what build() returned
    outHist,            \* everything the child has written to stdout
    errHist,            \* everything the child has written to stderr
    lines,              \* parser specification: the input
    scanResult,         \* parser specification: the value returned
    scanDone,           \* parser specification: process_messages has run
    cell,               \* Lazy cell: state "uninit" | "running" | "init" |
                        \* "poisoned", and the stored value as Option
    built,              \* paths returned by completed builds, in order
    spawns,             \* number of times the Lazy initializer was started
    thr,                \* per thread: position inside path_to_<name>()
    calls,              \* per thread: calls of path_to_<name>() started
    ret,                \* per thread: the last value returned, as Option
    stdio,              \* how the child's stdin, stdout, stderr were set up
    waitCalled,         \* cargo_command.wait() has been called
    phase,              \* loop specification: "idle" | "running"
    rd,                 \* loop specification: the reader, [pos, fails]
    loc,                \* loop specification: locals of the running call
    results,            \* loop specification: values returned so far
    tick                \* loop specification: parity of loop iterations

vars == <<binary_name, cargoSet, manifestDirSet, pc, child, pending, pipeOut,
          pipeErr, nWrites, exitOk, scan, error_msg, waited, result, outHist,
          errHist, lines, scanResult, scanDone, cell, built, spawns, thr,
          calls, ret, stdio, waitCalled, phase, rd, loc, results, tick>>

envVars == <<binary_name, cargoSet, manifestDirSet>>
onceVars == <<cell, built, spawns, thr, calls, ret>>
procVars == <<stdio, waitCalled>>
loopVars == <<phase, rd, loc, results, tick>>

scanVars == <<lines, scanResult, scanDone>>
childVars == <<child, pending, nWrites, exitOk, outHist, errHist>>
parentVars == <<pc, scan, error_msg, waited, result>>

\* std::process::Command: Command::new leaves the three streams unset,
\* build() sets stdout and stderr to Stdio::piped(), and spawn() gives every
\* stream left unset the default Stdio::inherit().
CommandNew == [stdin |-> "unset", stdout |-> "unset", stderr |-> "unset"]

BuildCommand == [CommandNew EXCEPT !.stdout = "piped", !.stderr = "piped"]

SpawnStdio(cmd) ==
    [k \in DOMAIN cmd |-> IF cmd[k] = "unset" THEN "inherit" ELSE cmd[k]]

\* No child yet and wait() not called.
ProcInit ==
    /\ stdio = CommandNew
    /\ waitCalled = FALSE

\* No call of process_messages in progress.
LoopIdle ==
    /\ phase = "idle"
    /\ rd = [pos |-> 0, fails |-> FALSE]
    /\ loc = ScanInit
    /\ results = <<>>
    /\ tick = 0

\* The Lazy cell and its callers before the first call.
OnceInit ==
    /\ cell = [state |-> "uninit", val |-> <<>>]
    /\ built = <<>>
    /\ spawns = 0
    /\ thr = [t \in Threads |-> "idle"]
    /\ calls = [t \in Threads |-> 0]
    /\ ret = [t \in Threads |-> <<>>]

Init ==
    /\ binary_name \in Names
    /\ cargoSet \in BOOLEAN
    /\ manifestDirSet \in BOOLEAN
    /\ OnceInit
    /\ ProcInit
    /\ LoopIdle
    /\ errHist = <<>>
    /\ pc = "manifest"
    /\ child = "none"
    /\ pending = <<>>
    /\ pipeOut = <<>>
    /\ pipeErr = <<>>
    /\ nWrites = 0
    /\ exitOk = FALSE
    /\ scan = ScanInit
    /\ error_msg = <<>>
    /\ waited = FALSE
    /\ result = NotReturned
    /\ outHist = <<>>
    /\ lines = <<>>
    /\ scanResult = NoOutcome
    /\ scanDone = FALSE

\* ------------------------------------------------------------ parent steps
\* A relative_to_parent that reads CARGO before CARGO_MANIFEST_DIR.
RelativeToParent_CargoFirst ==
    /\ pc = "manifest"
    /\ IF ~cargoSet
       THEN pc' = "done" /\ result' = NonCargoRun("CARGO")
       ELSE IF manifestDirSet
       THEN pc' = "env" /\ result' = result
       ELSE pc' = "done" /\ result' = ManifestError("EnvNotSet")
    /\ UNCHANGED <<envVars, onceVars, loopVars, procVars, childVars, pipeOut, pipeErr, scan,
                   error_msg, waited, scanVars>>

\* build_test_binary: TestBinary::relative_to_parent(name, ..)? comes first;
\* manifest_dir() fails when CARGO_MANIFEST_DIR is not set.
RelativeToParent ==
    /\ pc = "manifest"
    /\ IF manifestDirSet
       THEN pc' = "env" /\ result' = result
       ELSE pc' = "done" /\ result' = ManifestError("EnvNotSet")
    /\ UNCHANGED <<envVars, onceVars, loopVars, procVars, childVars, pipeOut, pipeErr, scan,
                   error_msg, waited, scanVars>>

\* A build() that does not look at CARGO before it spawns.
GetCargoEnv_Unchecked ==
    /\ pc = "env"
    /\ pc' = "spawn"
    /\ result' = result
    /\ UNCHANGED <<envVars, onceVars, loopVars, procVars, childVars, pipeOut, pipeErr, scan,
                   error_msg, waited, scanVars>>

\* let cargo_path = get_cargo_env("CARGO")?;
GetCargoEnv ==
    /\ pc = "env"
    /\ IF cargoSet
       THEN pc' = "spawn" /\ result' = result
       ELSE pc' = "done" /\ result' = NonCargoRun("CARGO")
    /\ UNCHANGED <<envVars, onceVars, loopVars, procVars, childVars, pipeOut, pipeErr, scan,
                   error_msg, waited, scanVars>>

\* Command::new(..).stdout(piped()).stderr(piped()).spawn()?
Spawn ==
    /\ pc = "spawn"
    /\ \E ok \in BOOLEAN :
          IF ok
          THEN /\ pc' = "scan"
               /\ child' = "running"
               /\ stdio' = SpawnStdio(BuildCommand)
               /\ result' = result
          ELSE /\ pc' = "done"
               /\ child' = child
               /\ stdio' = stdio
               /\ result' = CargoRunError
    /\ UNCHANGED <<envVars, onceVars, loopVars, waitCalled, pending, nWrites,
                   exitOk, outHist, errHist, pipeOut, pipeErr, scan,
                   error_msg, waited, scanVars>>

\* process_messages takes the next item from the stdout reader.
ScanRead ==
    /\ pc = "scan"
    /\ pipeOut # <<>>
    /\ LET st == ScanStep(scan, Head(pipeOut), binary_name) IN
          /\ scan' = st
          /\ pc' = IF st.stop THEN "stderr" ELSE "scan"
    /\ pipeOut' = Tail(pipeOut)
    /\ UNCHANGED <<envVars, onceVars, loopVars, procVars, childVars, pipeErr, error_msg,
                   waited, result, scanVars>>

\* An end of stream that turns a pending None into BinaryNotBuilt.
ScanEof_DefaultNotBuilt ==
    /\ pc = "scan"
    /\ pipeOut = <<>>
    /\ child = "exited"
    /\ pc' = "stderr"
    /\ scan' = [scan EXCEPT !.outcome = IF scan.outcome.tag = "None"
                                        THEN BinaryNotBuilt(binary_name)
                                        ELSE scan.outcome]
    /\ UNCHANGED <<envVars, onceVars, loopVars, procVars, childVars, pipeOut,
                   pipeErr, error_msg, waited, result, scanVars>>

\* The stdout reader reports end-of-stream: the loop ends without break.
ScanEof ==
    /\ pc = "scan"
    /\ pipeOut = <<>>
    /\ child = "exited"
    /\ pc' = "stderr"
    /\ UNCHANGED <<envVars, onceVars, loopVars, procVars, childVars, pipeOut, pipeErr, scan,
                   error_msg, waited, result, scanVars>>

\* read_to_string moves what is in the stderr pipe into error_msg.
ErrRead ==
    /\ pc = "stderr"
    /\ pipeErr # <<>>
    /\ error_msg' = error_msg \o <<Head(pipeErr)>>
    /\ pipeErr' = Tail(pipeErr)
    /\ UNCHANGED <<envVars, onceVars, loopVars, procVars, childVars, pipeOut, pc, scan,
                   waited, result, scanVars>>

HasBadUtf8(msg) == \E i \in 1..Len(msg) : msg[i] = BadUtf8

\* A reader that stops once the child has exited, whatever is still in the
\* pipe: one read instead of read_to_string.
ErrEof_SingleRead ==
    /\ pc = "stderr"
    /\ child = "exited"
    /\ IF HasBadUtf8(error_msg)
       THEN pc' = "done" /\ result' = CargoRunError
       ELSE pc' = "wait" /\ result' = result
    /\ UNCHANGED <<envVars, onceVars, loopVars, procVars, childVars, pipeOut, pipeErr, scan,
                   error_msg, waited, scanVars>>

\* read_to_string reaches end-of-stream; `?` returns on a decoding error.
ErrEof ==
    /\ pc = "stderr"
    /\ pipeErr = <<>>
    /\ child = "exited"
    /\ IF HasBadUtf8(error_msg)
       THEN pc' = "done" /\ result' = CargoRunError
       ELSE pc' = "wait" /\ result' = result
    /\ UNCHANGED <<envVars, onceVars, loopVars, procVars, childVars, pipeOut, pipeErr, scan,
                   error_msg, waited, scanVars>>

\* cargo_command.wait()? and the reconciliation that follows it.
Wait ==
    /\ pc = "wait"
    /\ child = "exited"
    /\ \E ok \in BOOLEAN :
          IF ok
          THEN /\ waited' = TRUE
               /\ result' = Reconcile(exitOk, scan.outcome, error_msg)
          ELSE /\ waited' = FALSE
               /\ result' = CargoRunError
    /\ waitCalled' = TRUE
    /\ pc' = "done"
    /\ UNCHANGED <<envVars, onceVars, loopVars, stdio, childVars, pipeOut,
                   pipeErr, scan, error_msg, scanVars>>

\* ------------------------------------------------------------- child steps
Pipe(chan) == IF chan = "stdout" THEN pipeOut ELSE pipeErr

\* The child starts a write of one item to one of its two channels.
ChildBeginWrite ==
    /\ child = "running"
    /\ nWrites < MaxWrites
    /\ \/ \E item \in StdoutItems : pending' = <<"stdout", item>>
       \/ \E item \in StderrItems : pending' = <<"stderr", item>>
    /\ child' = "writing"
    /\ UNCHANGED <<envVars, onceVars, loopVars, procVars, parentVars, pipeOut, pipeErr,
                   nWrites, exitOk, outHist, errHist, scanVars>>

\* The write completes once the pipe has room; until then the child blocks.
ChildWrite ==
    /\ child = "writing"
    /\ Len(Pipe(pending[1])) < PipeCap
    /\ IF pending[1] = "stdout"
       THEN /\ pipeOut' = Append(pipeOut, pending[2])
            /\ outHist' = Append(outHist, pending[2])
            /\ pipeErr' = pipeErr
            /\ errHist' = errHist
       ELSE /\ pipeErr' = Append(pipeErr, pending[2])
            /\ errHist' = Append(errHist, pending[2])
            /\ pipeOut' = pipeOut
            /\ outHist' = outHist
    /\ nWrites' = nWrites + 1
    /\ child' = "running"
    /\ pending' = <<>>
    /\ UNCHANGED <<envVars, onceVars, loopVars, procVars, parentVars, exitOk, scanVars>>

\* The child exits; the write ends of both pipes are closed.
ChildExit ==
    /\ child = "running"
    /\ \E ok \in BOOLEAN : exitOk' = ok
    /\ child' = "exited"
    /\ UNCHANGED <<envVars, onceVars, loopVars, procVars, parentVars, pipeOut, pipeErr,
                   pending, nWrites, outHist, errHist, scanVars>>

Next ==
    \/ RelativeToParent
    \/ GetCargoEnv
    \/ Spawn
    \/ ScanRead
    \/ ScanEof
    \/ ErrRead
    \/ ErrEof
    \/ Wait
    \/ ChildBeginWrite
    \/ ChildWrite
    \/ ChildExit

Spec == Init /\ [][Next]_vars

\* ------------------------------------------------- parser specification
\* process_messages as a function of its input: every line sequence up to
\* MaxLines and every requested name, then one call.
BoundedSeq(S, n) == UNION { [1..k -> S] : k \in 0..n }

InitScan ==
    /\ binary_name \in Names
    /\ lines \in BoundedSeq(StdoutItems, MaxLines)
    /\ scanResult = NoOutcome
    /\ scanDone = FALSE
    /\ cargoSet = TRUE
    /\ manifestDirSet = TRUE
    /\ OnceInit
    /\ ProcInit
    /\ LoopIdle
    /\ errHist = <<>>
    /\ pc = "manifest"
    /\ child = "none"
    /\ pending = <<>>
    /\ pipeOut = <<>>
    /\ pipeErr = <<>>
    /\ nWrites = 0
    /\ exitOk = FALSE
    /\ scan = ScanInit
    /\ error_msg = <<>>
    /\ waited = FALSE
    /\ result = NotReturned
    /\ outHist = <<>>

RunScan ==
    /\ ~scanDone
    /\ scanResult' = process_messages(lines, binary_name)
    /\ scanDone' = TRUE
    /\ UNCHANGED <<envVars, onceVars, loopVars, procVars, parentVars, childVars, pipeOut,
                   pipeErr, lines>>

NextScan == RunScan

SpecScan == InitScan /\ [][NextScan]_vars

\* ------------------------------------------- build_test_binary_once!
\* The function path_to_<name>() generated by the macro: a static
\* once_cell::sync::Lazy<OsString> whose initializer is
\* build_test_binary(..).unwrap(), forced and cloned on every call.

\* A cell without mutual exclusion: a caller that finds the initializer
\* running starts it again.
LazyMustInit_Racy(c) == c.state \in {"uninit", "running"}

\* Whether a caller that forces the cell has to run the initializer.
LazyMustInit(c) == c.state = "uninit"

InitOnce ==
    /\ binary_name = "multiple"
    /\ cargoSet = TRUE
    /\ manifestDirSet = TRUE
    /\ OnceInit
    /\ ProcInit
    /\ LoopIdle
    /\ pc = "manifest"
    /\ child = "none"
    /\ pending = <<>>
    /\ pipeOut = <<>>
    /\ pipeErr = <<>>
    /\ nWrites = 0
    /\ exitOk = FALSE
    /\ scan = ScanInit
    /\ error_msg = <<>>
    /\ waited = FALSE
    /\ result = NotReturned
    /\ outHist = <<>>
    /\ errHist = <<>>
    /\ lines = <<>>
    /\ scanResult = NoOutcome
    /\ scanDone = FALSE

buildVars == <<envVars, parentVars, childVars, pipeOut, pipeErr, scanVars,
               loopVars, procVars>>

\* Thread t calls path_to_<name>().
CallStart(t) ==
    /\ thr[t] = "idle"
    /\ calls[t] < MaxCalls
    /\ thr' = [thr EXCEPT ![t] = "forcing"]
    /\ calls' = [calls EXCEPT ![t] = @ + 1]
    /\ UNCHANGED <<buildVars, cell, built, spawns, ret>>

\* Thread t dereferences the Lazy: it starts the initializer, finds the
\* value and returns a clone of it, or panics on a poisoned cell.  While
\* another thread runs the initializer it blocks.
Force(t) ==
    /\ thr[t] = "forcing"
    /\ IF LazyMustInit(cell)
       THEN /\ cell' = [cell EXCEPT !.state = "running"]
            /\ spawns' = spawns + 1
            /\ thr' = [thr EXCEPT ![t] = "building"]
            /\ ret' = ret
       ELSE /\ cell.state \in {"init", "poisoned"}
            /\ IF cell.state = "init"
               THEN /\ ret' = [ret EXCEPT ![t] = cell.val]
                    /\ thr' = [thr EXCEPT ![t] = "idle"]
               ELSE /\ ret' = [ret EXCEPT ![t] = <<>>]
                    /\ thr' = [thr EXCEPT ![t] = "panicked"]
            /\ UNCHANGED <<cell, spawns>>
    /\ UNCHANGED <<buildVars, built, calls>>

\* build_test_binary returns inside the initializer: Ok(path) is stored and
\* a clone returned; Err makes unwrap() panic, which poisons the cell.
FinishBuild(t) ==
    /\ thr[t] = "building"
    /\ \/ \E p \in BuiltPaths :
             /\ built' = Append(built, p)
             /\ cell' = [state |-> "init", val |-> <<p>>]
             /\ ret' = [ret EXCEPT ![t] = <<p>>]
             /\ thr' = [thr EXCEPT ![t] = "idle"]
       \/ /\ built' = built
          /\ cell' = [state |-> "poisoned", val |-> <<>>]
          /\ ret' = [ret EXCEPT ![t] = <<>>]
          /\ thr' = [thr EXCEPT ![t] = "panicked"]
    /\ UNCHANGED <<buildVars, spawns, calls>>

NextOnce ==
    \E t \in Threads :
        \/ CallStart(t)
        \/ Force(t)
        \/ FinishBuild(t)

SpecOnce == InitOnce /\ [][NextOnce]_vars

\* ------------------------------------------------- loop specification
\* process_messages step by step, called MaxRuns times on the same input.
\* The reader yields the items of `lines`; after them it either reports
\* end-of-stream (the channel was closed) or fails on every further read
\* (rd.fails).  Message::parse_stream turns a failed read into an Err item
\* and flatten() discards Err items and asks for the next one.
InitLoop ==
    /\ binary_name \in Names
    /\ lines \in BoundedSeq(StdoutItems, MaxLoopLines)
    /\ phase = "idle"
    /\ rd \in {[pos |-> 0, fails |-> f] : f \in BOOLEAN}
    /\ loc = ScanInit
    /\ results = <<>>
    /\ tick = 0
    /\ scanResult = NoOutcome
    /\ scanDone = FALSE
    /\ cargoSet = TRUE
    /\ manifestDirSet = TRUE
    /\ OnceInit
    /\ ProcInit
    /\ pc = "manifest"
    /\ child = "none"
    /\ pending = <<>>
    /\ pipeOut = <<>>
    /\ pipeErr = <<>>
    /\ nWrites = 0
    /\ exitOk = FALSE
    /\ scan = ScanInit
    /\ error_msg = <<>>
    /\ waited = FALSE
    /\ result = NotReturned
    /\ outHist = <<>>
    /\ errHist = <<>>

restVars == <<envVars, onceVars, procVars, parentVars, childVars, pipeOut,
              pipeErr, scanVars>>

\* Locals that live on between calls, as `static mut` would.
FreshLocals_Static(prev) == [prev EXCEPT !.stop = FALSE]

\* let mut cargo_outcome = None; let mut compiler_messages = String::new();
\* every call starts from these, whatever an earlier call left behind.
FreshLocals(prev) == ScanInit

\* A call of process_messages with a new reader over the same input.
ProcessMessagesCall ==
    /\ phase = "idle"
    /\ Len(results) < MaxRuns
    /\ phase' = "running"
    /\ rd' = [rd EXCEPT !.pos = 0]
    /\ loc' = FreshLocals(loc)
    /\ UNCHANGED <<restVars, results, tick>>

\* next() yields the next item of the input; the loop body runs on it.
LoopNext ==
    /\ phase = "running"
    /\ ~loc.stop
    /\ rd.pos < Len(lines)
    /\ loc' = ScanStep(loc, lines[rd.pos + 1], binary_name)
    /\ rd' = [rd EXCEPT !.pos = rd.pos + 1]
    /\ tick' = 1 - tick
    /\ UNCHANGED <<restVars, phase, results>>

\* The read behind next() fails: the item is Err, flatten() drops it and
\* the loop asks for the next item.
LoopNextErr ==
    /\ phase = "running"
    /\ ~loc.stop
    /\ rd.pos = Len(lines)
    /\ rd.fails
    /\ loc' = ScanStep(loc, ReadError, binary_name)
    /\ tick' = 1 - tick
    /\ UNCHANGED <<restVars, phase, rd, results>>

\* The loop ended by `break` or by end-of-stream; cargo_outcome is returned.
ProcessMessagesReturn ==
    /\ phase = "running"
    /\ \/ loc.stop
       \/ rd.pos = Len(lines) /\ ~rd.fails
    /\ results' = Append(results, loc.outcome)
    /\ phase' = "idle"
    /\ UNCHANGED <<restVars, rd, loc, tick>>

NextLoop ==
    \/ ProcessMessagesCall
    \/ LoopNext
    \/ LoopNextErr
    \/ ProcessMessagesReturn

SpecLoop == InitLoop /\ [][NextLoop]_vars

\* The thread inside process_messages keeps running: a step that is
\* possible is eventually taken.
SpecLoopFair == InitLoop /\ [][NextLoop]_vars /\ WF_vars(NextLoop)

\* ================================================================ properties
\* The child is inside a write to a pipe that has no room left.
ChildBlocked == child = "writing" /\ Len(Pipe(pending[1])) >= PipeCap

\* The parent is inside a blocking call that cannot return in this state.
ParentBlocked ==
    \/ pc = "scan" /\ pipeOut = <<>> /\ child # "exited"
    \/ pc = "stderr" /\ pipeErr = <<>> /\ child # "exited"
    \/ pc = "wait" /\ child # "exited"

\* build() reached the reconciliation: wait() returned the exit status.
Reconciled == pc = "done" /\ waited

\* C1: build never reaches a state in which the child is blocked writing to
\* a full channel while the parent is blocked reading the other channel or
\* waiting for exit.
C1_NoMutualBlocking == ~(ChildBlocked /\ ParentBlocked)

\* C2: when build is about to call wait(), nothing the child wrote to stdout
\* or stderr is left unread; lines after the one at which the parser
\* concluded have been read and discarded.
C2_WaitAfterBothDrained == pc = "wait" => (pipeOut = <<>> /\ pipeErr = <<>>)

\* C3: exit success and parser outcome Found(path) give Ok with the same path
\* text.
C3_SuccessFound ==
    (Reconciled /\ exitOk /\ scan.outcome.tag = "Ok")
        => /\ result.tag = "Ok"
           /\ Len(result.val) = 1
           /\ result.val[1].ty = "OsString"
           /\ result.val[1].s = scan.outcome.val[1].s

C3_Witness ==
    /\ Reconciled /\ exitOk /\ scan.outcome.tag = "Ok"
    /\ result.tag = "Ok"
    /\ pipeOut # <<>>

\* C4: exit failure and parser outcome Failed(diagnostics) give BuildError
\* carrying the parser's diagnostics, not the stderr text.
C4_FailureFailed ==
    (Reconciled /\ ~exitOk /\ scan.outcome.tag = "BuildError")
        => result = BuildError(scan.msgs)

C4_Witness ==
    /\ Reconciled /\ ~exitOk /\ scan.outcome.tag = "BuildError"
    /\ scan.msgs # <<>>
    /\ error_msg # <<>>
    /\ result.val # error_msg

\* C5 as stated: exit failure and any parser outcome other than Failed give
\* CargoFailure carrying the captured stderr text.
C5_FailureNotFailed ==
    (Reconciled /\ ~exitOk /\ scan.outcome.tag # "BuildError")
        => result = CargoFailure(error_msg)

\* C5 amended: exit failure with outcome Found or no outcome gives
\* CargoFailure carrying the captured stderr text; exit failure with outcome
\* NotBuilt gives that BinaryNotBuilt error.
C5_FailureFallback ==
    /\ (Reconciled /\ ~exitOk /\ scan.outcome.tag \in {"None", "Ok"})
          => result = CargoFailure(error_msg)
    /\ (Reconciled /\ ~exitOk /\ scan.outcome.tag = "BinaryNotBuilt")
          => result = BinaryNotBuilt(binary_name)

C5_Witness ==
    /\ Reconciled /\ ~exitOk /\ scan.outcome.tag = "Ok"
    /\ error_msg # <<>>
    /\ result.tag = "CargoFailure"

\* A returned error that is neither success, nor the build error, nor the
\* artifact-not-produced error, nor a panic.
IsInternalConsistencyError(r) ==
    r.tag \notin {"NotReturned", "Panic", "Ok", "BuildError", "BinaryNotBuilt"}

\* C6 as stated: exit success with outcome NotBuilt or no outcome returns an
\* internal-consistency error value distinct from the ordinary errors.
C6_SuccessContradiction ==
    (Reconciled /\ exitOk /\ scan.outcome.tag \in {"BinaryNotBuilt", "None"})
        => IsInternalConsistencyError(result)

\* C6 amended: exit success with outcome NotBuilt returns that
\* BinaryNotBuilt error; exit success with no outcome does not return a
\* value, build panics with "Cargo succeeded but produced no output".
C6_SuccessNoPath ==
    /\ (Reconciled /\ exitOk /\ scan.outcome.tag = "BinaryNotBuilt")
          => result = BinaryNotBuilt(binary_name)
    /\ (Reconciled /\ exitOk /\ scan.outcome.tag = "None")
          => result = Panicked("Cargo succeeded but produced no output")

C6_Witness ==
    /\ Reconciled /\ exitOk /\ scan.outcome.tag = "None"
    /\ result.tag = "Panic"

\* C7: when all the child wrote to stdout is one build-finished record with
\* success=true, build returns BinaryNotBuilt with the requested name.
C7_ScenarioD ==
    (Reconciled /\ outHist = <<BuildFinished(TRUE)>>)
        => result = BinaryNotBuilt(binary_name)

C7_Witness ==
    /\ Reconciled /\ outHist = <<BuildFinished(TRUE)>>
    /\ exitOk
    /\ result.tag = "BinaryNotBuilt"

\* C8 as stated: exit success with outcome Failed returns an
\* internal-consistency error, neither success nor the build error.
C8_SuccessFailedInternal ==
    (Reconciled /\ exitOk /\ scan.outcome.tag = "BuildError")
        => IsInternalConsistencyError(result)

\* C8 amended: exit success with outcome Failed(diagnostics) returns the
\* BuildError carrying those diagnostics, not success.
C8_SuccessFailed ==
    (Reconciled /\ exitOk /\ scan.outcome.tag = "BuildError")
        => result = BuildError(scan.msgs)

C8_Witness ==
    /\ Reconciled /\ exitOk /\ scan.outcome.tag = "BuildError"
    /\ scan.msgs # <<>>
    /\ result.tag = "BuildError"

\* ---------------------------------------------------- parser properties
IsMatchWithPath(line, name) == IsMatch(line, name) /\ Len(line.executable) = 1

IsFinish(line) == line.reason = "build-finished"

\* Index of the first element of ls that satisfies P, or 0.
FirstIndex(ls, P(_)) ==
    IF \E i \in 1..Len(ls) : P(ls[i])
    THEN CHOOSE i \in 1..Len(ls) :
            P(ls[i]) /\ \A j \in 1..(i - 1) : ~P(ls[j])
    ELSE 0

\* The contents of the compiler-message and text lines of ls, in order, each
\* followed by one line break.
RECURSIVE DiagText(_)
DiagText(ls) ==
    IF ls = <<>> THEN <<>>
    ELSE LET h == Head(ls) IN
         (IF h.reason = "compiler-message" THEN <<h.rendered, NL>>
          ELSE IF h.reason = "text-line" THEN <<h.text, NL>>
          ELSE <<>>) \o DiagText(Tail(ls))

\* C9 as stated: every input that contains a matching artifact record with an
\* executable path yields Some(Ok(path of the first such record)), whatever
\* else the input contains.
C9_AnyMatchWins ==
    LET WithPath(l) == IsMatchWithPath(l, binary_name)
        i == FirstIndex(lines, WithPath)
    IN  (scanDone /\ i > 0)
            => scanResult = OkPath(<<Utf8PathBuf(lines[i].executable[1])>>)

\* C9 amended: when the first record of the input that is a matching artifact
\* record or a build-finished record is a matching artifact record with an
\* executable path, the result is Some(Ok(that path)), whatever precedes or
\* follows it.
C9_FirstMatchWins ==
    LET Decisive(l) == IsMatch(l, binary_name) \/ IsFinish(l)
        i == FirstIndex(lines, Decisive)
    IN  (scanDone /\ i > 0 /\ IsMatchWithPath(lines[i], binary_name))
            => scanResult = OkPath(<<Utf8PathBuf(lines[i].executable[1])>>)

C9_Witness ==
    /\ scanDone
    /\ scanResult.tag = "Ok"
    /\ Len(lines) = 3
    /\ lines[1].reason = "compiler-message"
    /\ IsMatchWithPath(lines[2], binary_name)
    /\ lines[3] = BuildFinished(FALSE)

\* C10 as stated: every input that ends in build-finished with success=false
\* yields BuildError carrying the diagnostics text of all lines before it.
C10_EndsInFailure ==
    (scanDone /\ lines # <<>> /\ lines[Len(lines)] = BuildFinished(FALSE))
        => scanResult = BuildError(DiagText(SubSeq(lines, 1, Len(lines) - 1)))

\* C10 amended: every input that ends in build-finished with success=false
\* and has no earlier build-finished record and no matching artifact record
\* yields BuildError carrying the diagnostics text of all lines before the
\* marker.
C10_FailureCarriesDiagnostics ==
    LET Decisive(l) == IsMatch(l, binary_name) \/ IsFinish(l) IN
    (/\ scanDone
     /\ lines # <<>>
     /\ lines[Len(lines)] = BuildFinished(FALSE)
     /\ FirstIndex(lines, Decisive) = Len(lines))
        => scanResult = BuildError(DiagText(SubSeq(lines, 1, Len(lines) - 1)))

C10_Witness ==
    /\ scanDone
    /\ lines = <<CompilerMessage("error: E1"), TextLine("Surprise text line!"),
                 CompilerMessage("error: E1"), BuildFinished(FALSE)>>
    /\ scanResult = BuildError(<<"error: E1", NL, "Surprise text line!", NL,
                                 "error: E1", NL>>)

\* An artifact record with the requested name whose kind lacks "bin".
SameNameNotBin(l, name) ==
    /\ l.reason = "compiler-artifact"
    /\ l.name = name
    /\ "bin" \notin l.kind

\* C11: a same-named artifact record whose kind lacks "bin" never produces
\* Found and never stops scanning: the result is the one obtained with
\* those records deleted, and a Found result carries the path of a record
\* whose name equals the requested name and whose kind contains "bin".
C11_KindRequired ==
    scanDone =>
        /\ scanResult =
              process_messages(
                  SelectSeq(lines, LAMBDA l : ~SameNameNotBin(l, binary_name)),
                  binary_name)
        /\ scanResult.tag = "Ok" =>
              \E i \in 1..Len(lines) :
                  /\ lines[i].reason = "compiler-artifact"
                  /\ lines[i].name = binary_name
                  /\ "bin" \in lines[i].kind
                  /\ lines[i].executable = <<scanResult.val[1].s>>

C11_Witness ==
    /\ scanDone
    /\ binary_name = "fla"
    /\ lines = <<Artifact("fla", {"lib"}, <<"/target/debug/a">>),
                 Artifact("fla", {"bin"}, <<"/target/debug/b">>)>>
    /\ scanResult = OkPath(<<Utf8PathBuf("/target/debug/b")>>)

\* lines[i] is the first matching artifact record and carries no path.
FirstMatchIsPathless(i) ==
    LET Matching(l) == IsMatch(l, binary_name) IN
    /\ i > 0
    /\ i = FirstIndex(lines, Matching)
    /\ Len(lines[i].executable) = 0

\* C12 as stated: whenever the first matching artifact record carries no
\* executable path, the result is BinaryNotBuilt(requested name).
C12_PathlessMatch ==
    \A i \in 1..Len(lines) :
        (scanDone /\ FirstMatchIsPathless(i))
            => scanResult = BinaryNotBuilt(binary_name)

\* C12 amended: whenever the first matching artifact record carries no
\* executable path and no build-finished record precedes it, the loop
\* stops there and the result is BinaryNotBuilt(requested name), whatever
\* follows.
C12_PathlessMatchFirst ==
    \A i \in 1..Len(lines) :
        (/\ scanDone
         /\ FirstMatchIsPathless(i)
         /\ \A j \in 1..(i - 1) : ~IsFinish(lines[j]))
            => /\ scanResult = BinaryNotBuilt(binary_name)
               /\ scanResult =
                     process_messages(SubSeq(lines, 1, i), binary_name)

C12_Witness ==
    /\ scanDone
    /\ Len(lines) = 3
    /\ IsMatch(lines[1], binary_name)
    /\ Len(lines[1].executable) = 0
    /\ IsMatchWithPath(lines[2], binary_name)
    /\ lines[3] = BuildFinished(TRUE)
    /\ scanResult = BinaryNotBuilt(binary_name)

\* lines[i] is a build-finished record with success=true and no matching
\* artifact record comes before it.
SuccessBeforeMatch(i) ==
    /\ lines[i] = BuildFinished(TRUE)
    /\ \A j \in 1..(i - 1) : ~IsMatch(lines[j], binary_name)

\* C13 as stated: whenever a build-finished record with success=true
\* arrives before any matching artifact record, the result is
\* BinaryNotBuilt(requested name).
C13_SuccessWithoutMatch ==
    \A i \in 1..Len(lines) :
        (scanDone /\ SuccessBeforeMatch(i))
            => scanResult = BinaryNotBuilt(binary_name)

\* C13 amended: whenever the first build-finished record has success=true
\* and arrives before any matching artifact record, the result is
\* BinaryNotBuilt(requested name).
C13_FirstFinishSuccess ==
    \A i \in 1..Len(lines) :
        (/\ scanDone
         /\ SuccessBeforeMatch(i)
         /\ i = FirstIndex(lines, IsFinish))
            => scanResult = BinaryNotBuilt(binary_name)

C13_Witness ==
    /\ scanDone
    /\ Len(lines) = 3
    /\ lines[1].reason = "text-line"
    /\ lines[2] = BuildFinished(TRUE)
    /\ IsMatchWithPath(lines[3], binary_name)
    /\ scanResult = BinaryNotBuilt(binary_name)

\* C14: an input with no build-finished record and no matching artifact
\* record, the empty input included, yields None, which is none of NotBuilt,
\* Failed and Found.
C14_SilentEndNoOutcome ==
    (/\ scanDone
     /\ \A i \in 1..Len(lines) :
           ~IsMatch(lines[i], binary_name) /\ ~IsFinish(lines[i]))
        => /\ scanResult = NoOutcome
           /\ scanResult.tag \notin {"BinaryNotBuilt", "BuildError", "Ok"}

C14_Witness ==
    /\ scanDone
    /\ Len(lines) = 3
    /\ lines[1].reason = "compiler-message"
    /\ SameNameNotBin(lines[2], binary_name)
    /\ lines[3] = ReadError
    /\ scanResult = NoOutcome

\* C15: the result is decided by the input up to and including its first
\* build-finished record: two inputs that agree on that prefix have the
\* same result, whatever follows the record.
C15_FinishDecides ==
    LET i == FirstIndex(lines, IsFinish) IN
    (scanDone /\ i > 0)
        => scanResult = process_messages(SubSeq(lines, 1, i), binary_name)

C15_Witness ==
    /\ scanDone
    /\ Len(lines) = 3
    /\ lines[1] = BuildFinished(TRUE)
    /\ IsMatchWithPath(lines[2], binary_name)
    /\ lines[3] = BuildFinished(FALSE)
    /\ scanResult = BinaryNotBuilt(binary_name)

\* C16: whatever the number and interleaving of calls, the initializer (and
\* with it the child process) is started at most once, and every call that
\* returned a value returned the path produced by that one build.
C16_BuiltOnce ==
    /\ spawns <= 1
    /\ Len(built) <= spawns
    /\ \A t \in Threads :
          ret[t] # <<>> => (Len(built) = 1 /\ ret[t] = <<built[1]>>)

C16_Witness ==
    /\ spawns = 1
    /\ \A t \in Threads : ret[t] # <<>> /\ thr[t] = "idle" /\ calls[t] = MaxCalls

\* C17: no child exists unless CARGO is set, and a build() entered without
\* CARGO returns NonCargoRun, a class of its own, with no child spawned.
C17_EnvCheckedBeforeSpawn ==
    /\ child # "none" => cargoSet
    /\ pc = "spawn" => cargoSet
    /\ (pc = "done" /\ manifestDirSet /\ ~cargoSet)
          => /\ result = NonCargoRun("CARGO")
             /\ child = "none"
             /\ result.tag \notin {"CargoRunError", "CargoFailure",
                                    "BuildError", "BinaryNotBuilt",
                                    "ManifestError"}

C17_Witness ==
    /\ pc = "done"
    /\ manifestDirSet
    /\ ~cargoSet
    /\ result.tag = "NonCargoRun"

\* C18: with neither CARGO nor CARGO_MANIFEST_DIR set, build_test_binary
\* returns ManifestError; the manifest lookup fails before CARGO is read
\* and before a child is spawned.
C18_ManifestCheckedFirst ==
    (~cargoSet /\ ~manifestDirSet)
        => /\ pc \in {"manifest", "done"}
           /\ child = "none"
           /\ pc = "done" => result = ManifestError("EnvNotSet")

C18_Witness ==
    /\ pc = "done"
    /\ ~cargoSet
    /\ ~manifestDirSet
    /\ result.tag = "ManifestError"

\* The items process_messages has taken from the stdout reader so far.
Consumed == SubSeq(outHist, 1, Len(outHist) - Len(pipeOut))

\* C19: when a read of stdout failed before the parser concluded, build
\* returns CargoRunError.
C19_ReadErrorPropagates ==
    (/\ pc = "done"
     /\ child # "none"
     /\ \E i \in 1..Len(Consumed) : Consumed[i] = ReadError)
        => result.tag = "CargoRunError"

C22_StdinNotInherited ==
    child # "none"
        => /\ stdio.stdout = "piped"
           /\ stdio.stderr = "piped"
           /\ stdio.stdin # "inherit"

\* C26: whenever build() has returned after a successful spawn, wait() was
\* called on the child before the return.
C26_AwaitedBeforeReturn ==
    (pc = "done" /\ child # "none") => waitCalled

\* The child wrote no matching artifact record and no build-finished record
\* to stdout, and process_messages has returned (at end of stream).
SilentEnd ==
    /\ pc \in {"stderr", "wait", "done"}
    /\ child # "none"
    /\ \A i \in 1..Len(outHist) :
          ~IsMatch(outHist[i], binary_name) /\ ~IsFinish(outHist[i])

\* C23: when stdout ends with no build-finished record and no matching
\* artifact record, the parse outcome is BinaryNotBuilt(binary_name).
C23_SilentEndNotBuilt ==
    SilentEnd => scan.outcome = BinaryNotBuilt(binary_name)

\* C23, amended: when stdout ends with no build-finished record and no
\* matching artifact record, the parse outcome is None; build() then never
\* returns BinaryNotBuilt, and after an unsuccessful exit it returns
\* CargoFailure with the stderr text.
C23_SilentEndNone ==
    SilentEnd
        => /\ scan.outcome = NoOutcome
           /\ result.tag # "BinaryNotBuilt"
           /\ (Reconciled /\ ~exitOk) => result = CargoFailure(error_msg)

C23_Witness ==
    /\ SilentEnd
    /\ Reconciled
    /\ ~exitOk
    /\ Len(outHist) >= 2
    /\ \E i \in 1..Len(outHist) : SameNameNotBin(outHist[i], binary_name)
    /\ scan.outcome = NoOutcome
    /\ result.tag = "CargoFailure"

\* Record l is an artifact record of the binary called name, of a kind that
\* contains "bin", and carries the executable path whose text is p.
CarriesPath(l, name, p) ==
    /\ l.reason = "compiler-artifact"
    /\ l.name = name
    /\ "bin" \in l.kind
    /\ Len(l.executable) = 1
    /\ l.executable[1] = p

\* C25: build() returns Ok(path) only if wait() reported success and the
\* child wrote to stdout, before any build-finished record, an artifact
\* record of the requested binary with kind "bin" that carries that path.
C25_OkOnlyIfSuccessAndMatch ==
    result.tag = "Ok"
        => /\ waited
           /\ exitOk
           /\ Len(result.val) = 1
           /\ result.val[1].ty = "OsString"
           /\ \E i \in 1..Len(outHist) :
                 /\ CarriesPath(outHist[i], binary_name, result.val[1].s)
                 /\ \A j \in 1..(i - 1) : ~IsFinish(outHist[j])

C25_Witness ==
    /\ pc = "done"
    /\ result.tag = "Ok"
    /\ exitOk
    /\ Len(outHist) = 3
    /\ outHist[1].reason = "compiler-artifact"
    /\ outHist[1].name # binary_name
    /\ "bin" \in outHist[1].kind
    /\ CarriesPath(outHist[2], binary_name, result.val[1].s)
    /\ outHist[3] = BuildFinished(FALSE)

\* A record of another structured kind, or an artifact record that is not
\* the requested binary (other name, or kind without "bin").
Ignorable(l, name) ==
    \/ l.reason = "other"
    \/ /\ l.reason = "compiler-artifact"
       /\ ~(l.name = name /\ "bin" \in l.kind)

\* ls without its i-th element.
Delete(ls, i) == SubSeq(ls, 1, i - 1) \o SubSeq(ls, i + 1, Len(ls))

\* C24: a record of another structured kind or a non-matching artifact
\* record leaves the pending outcome and the diagnostics buffer as they were
\* and does not end the loop; deleting such a record from the input does
\* not change the result of process_messages.
C24_IgnoredRecords ==
    scanDone
        => \A i \in 1..Len(lines) :
              Ignorable(lines[i], binary_name)
                 => /\ ScanFrom(ScanInit, SubSeq(lines, 1, i), binary_name)
                       = ScanFrom(ScanInit, SubSeq(lines, 1, i - 1),
                                  binary_name)
                    /\ process_messages(Delete(lines, i), binary_name)
                       = scanResult

C24_Witness ==
    /\ scanDone
    /\ Len(lines) = 4
    /\ lines[1].reason = "compiler-message"
    /\ lines[2] = OtherMessage
    /\ lines[3].reason = "compiler-artifact"
    /\ lines[3].name # binary_name
    /\ lines[4] = BuildFinished(FALSE)
    /\ scanResult.tag = "BuildError"
    /\ Len(scanResult.val) = 2

\* C21: calls of process_messages on the same input and name return the
\* same value, the one the input alone determines, and a call starts from
\* an empty buffer, no pending outcome and no stop condition whatever an
\* earlier call left behind.
C21_Deterministic ==
    /\ \A i, j \in 1..Len(results) : results[i] = results[j]
    /\ \A i \in 1..Len(results) :
          results[i] = process_messages(lines, binary_name)
    /\ (phase = "running" /\ rd.pos = 0) => loc = ScanInit

C21_Witness ==
    /\ Len(results) = 2
    /\ phase = "idle"
    /\ Len(lines) = 2
    /\ lines[1].reason = "compiler-message"
    /\ lines[2] = BuildFinished(FALSE)
    /\ results[1].tag = "BuildError"
    /\ Len(results[1].val) = 2
    /\ results[2] = results[1]

\* C27: a call of process_messages returns, whether the reader ends with
\* end-of-stream or its reads fail, once or on every read.
C27_Terminates == (phase = "running") ~> (phase = "idle")
====
